---- MODULE Spec2Model ----
(***************************************************************************)
(* Model of the line-assembly front end of cparser.py (raw-line producer,  *)
(* continuation merger, diagnostics, dump) and of utils.format_ranges.     *)
(*                                                                         *)
(* A Python str is modelled as a sequence of one-character strings, a      *)
(* Lexeme object as a record held in a heap indexed by object identity, so *)
(* that `current = rline` aliases the producer's object as in the source.  *)
(***************************************************************************)
EXTENDS Integers, Sequences, FiniteSets, TLC

\* ---------------------------------------------------------------- bounds

\* Longest file content (in characters) the pipeline is run on.
MaxSrcLen == 5
\* Longest file content of the Lexeme method harness, and its longest text.
MaxLexSrc == 4
MaxText == 4
\* Largest count handed to truncate by the harness (smallest is -1).
MaxTrunc == 3
\* format_ranges inputs: integers in -FRNeg .. FRPos, at most MaxCount of them.
FRNeg == 1
FRPos == 10
MaxCount == 4

\* ------------------------------------------------------------ characters

BS == "\\"
NL == "\n"
Alphabet == {"a", "b", BS, NL}
None == 0

SeqsUpTo(S, n) == UNION {[1..k -> S] : k \in 0..n}

Max(a, b) == IF a >= b THEN a ELSE b

\* Python seq[:-count] for count > 0: the stop index len-count, clamped at 0.
SliceOff(seq, count) == SubSeq(seq, 1, Max(Len(seq) - count, 0))

\* str.endswith
StrEndswith(text, s) ==
    /\ Len(text) >= Len(s)
    /\ SubSeq(text, Len(text) - Len(s) + 1, Len(text)) = s

\* f.readlines(): the content cut after every newline; each line keeps its
\* newline, and a last line without one is kept when it is not empty.
RECURSIVE SplitLines(_, _)
SplitLines(s, acc) ==
    IF s = <<>> THEN (IF acc = <<>> THEN <<>> ELSE <<acc>>)
    ELSE IF Head(s) = NL
         THEN <<Append(acc, NL)>> \o SplitLines(Tail(s), <<>>)
         ELSE SplitLines(Tail(s), Append(acc, Head(s)))

ReadLines(s) == SplitLines(s, <<>>)

\* ---------------------------------------------------------------- Lexeme

Loc(l, c) == [l |-> l, c |-> c]

\* Lexeme.__init__
NewLexeme == [type |-> "LEX_UNKNOWN", text |-> <<>>, locs |-> <<>>]

\* Mutant: the other unit's text and positions put in front.
LexemePrepend(self, lexeme) ==
    [self EXCEPT !.text = lexeme.text \o @, !.locs = lexeme.locs \o @]

\* Lexeme.append
LexemeAppend(self, lexeme) ==
    [self EXCEPT !.text = @ \o lexeme.text, !.locs = @ \o lexeme.locs]

\* Mutant: only the text is cut, the positions are kept.
TruncateTextOnly(self, count) ==
    IF count > 0 THEN [self EXCEPT !.text = SliceOff(@, count)] ELSE self

\* Mutant: the slice is taken without the count > 0 test, so that a count
\* of 0 gives [:0] and a negative count a prefix.
TruncateUnguarded(self, count) ==
    IF count > 0
    THEN [self EXCEPT !.text = SliceOff(@, count), !.locs = SliceOff(@, count)]
    ELSE [self EXCEPT !.text = SubSeq(@, 1, 0 - count),
                      !.locs = SubSeq(@, 1, 0 - count)]

\* Lexeme.truncate
Truncate(self, count) ==
    IF count > 0
    THEN [self EXCEPT !.text = SliceOff(@, count), !.locs = SliceOff(@, count)]
    ELSE self

\* Lexeme.endswith
Endswith(self, s) == StrEndswith(self.text, s)

\* Lexeme.last_pos is locs[-1]: an IndexError on an empty list.
LastPosRaises(self) == self.locs = <<>>
LastPos(self) == self.locs[Len(self.locs)]

\* Mutant: columns counted from 0.
LineLocsFromZero(num, line) == [c \in 1..Len(line) |-> Loc(num, c - 1)]

\* The comprehension of make_line: one Loc per character, columns from 1.
LineLocs(num, line) == [c \in 1..Len(line) |-> Loc(num, c)]

make_line(num, line) ==
    [NewLexeme EXCEPT !.text = line, !.locs = LineLocs(num, line),
                      !.type = "LEX_RLINE"]

\* _read_rlines: one trailing newline is cut off.
StripNL(line) == IF StrEndswith(line, <<NL>>) THEN SliceOff(line, 1) ELSE line

\* ---------------------------------------------------------- format_ranges

Digits == <<"0", "1", "2", "3", "4", "5", "6", "7", "8", "9">>

RECURSIVE NatStr(_)
NatStr(n) ==
    IF n < 10 THEN <<Digits[n + 1]>>
    ELSE NatStr(n \div 10) \o <<Digits[(n % 10) + 1]>>

\* f"{n}" of an int
IntStr(n) == IF n < 0 THEN <<"-">> \o NatStr(0 - n) ELSE NatStr(n)

\* sorted(numbers)
RECURSIVE Insert(_, _)
Insert(x, s) ==
    IF s = <<>> THEN <<x>>
    ELSE IF x <= Head(s) THEN <<x>> \o s
         ELSE <<Head(s)>> \o Insert(x, Tail(s))

\* Mutant: the argument is used in the order given.
Unsorted(s) == s

RECURSIVE Sorted(_)
Sorted(s) == IF s = <<>> THEN <<>> ELSE Insert(Head(s), Sorted(Tail(s)))

\* sep.join(parts)
RECURSIVE Join(_, _)
Join(sep, parts) ==
    IF parts = <<>> THEN <<>>
    ELSE IF Len(parts) = 1 THEN parts[1]
         ELSE parts[1] \o sep \o Join(sep, Tail(parts))

\* The test that extends the current run.
Extends(n, end) == n = end + 1

\* The rendering of one finished run.
RangeStr(start, end) ==
    IF start = end THEN IntStr(start)
    ELSE IntStr(start) \o <<"-">> \o IntStr(end)

\* Mutant: the run still open when the loop ends is not appended.
RECURSIVE RangesFromNoTail(_, _, _, _, _)
RangesFromNoTail(numbers, i, start, end, ranges) ==
    IF i > Len(numbers) THEN ranges
    ELSE IF Extends(numbers[i], end)
         THEN RangesFromNoTail(numbers, i + 1, start, numbers[i], ranges)
         ELSE RangesFromNoTail(numbers, i + 1, numbers[i], numbers[i],
                               Append(ranges, RangeStr(start, end)))

\* The for loop of format_ranges from index i on, and the append after it.
RECURSIVE RangesFrom(_, _, _, _, _)
RangesFrom(numbers, i, start, end, ranges) ==
    IF i > Len(numbers) THEN Append(ranges, RangeStr(start, end))
    ELSE IF Extends(numbers[i], end)
         THEN RangesFrom(numbers, i + 1, start, numbers[i], ranges)
         ELSE RangesFrom(numbers, i + 1, numbers[i], numbers[i],
                         Append(ranges, RangeStr(start, end)))

format_ranges(input) ==
    LET numbers == Sorted(input)
    IN  IF numbers = <<>> THEN <<>>
        ELSE Join(<<",", " ">>,
                  RangesFrom(numbers, 2, numbers[1], numbers[1], <<>>))

\* ------------------------------------------------------------------ dump

\* Mutant: every position is a group of its own.
GroupEach(locs) == [i \in 1..Len(locs) |-> [l |-> locs[i].l, cols |-> <<locs[i].c>>]]

\* itertools.groupby(self.locs, key=lambda pos: pos.l): maximal runs of
\* consecutive locs with the same line, each as [l, cols].
RECURSIVE GroupByLine(_)
GroupByLine(locs) ==
    IF locs = <<>> THEN <<>>
    ELSE LET rest == GroupByLine(Tail(locs))
             h == Head(locs)
         IN  IF rest # <<>> /\ rest[1].l = h.l
             THEN <<[l |-> h.l, cols |-> <<h.c>> \o rest[1].cols]>> \o Tail(rest)
             ELSE <<[l |-> h.l, cols |-> <<h.c>>]>> \o rest

\* Lexeme._format_locs
FormatLocs(self) ==
    LET groups == GroupByLine(self.locs)
        lines == [g \in 1..Len(groups) |->
                    IntStr(groups[g].l) \o <<":">> \o format_ranges(groups[g].cols)]
    IN  Join(<<";">>, lines)

\* LexemeType.<member>.name
TypeName(t) ==
    CASE t = "LEX_UNKNOWN" -> <<"L", "E", "X", "_", "U", "N", "K", "N", "O", "W", "N">>
      [] t = "LEX_RLINE" -> <<"L", "E", "X", "_", "R", "L", "I", "N", "E">>
      [] t = "LEX_CLINE" -> <<"L", "E", "X", "_", "C", "L", "I", "N", "E">>

\* Lexeme.dump
Dump(self) ==
    <<"L", "e", "x", "e", "m", "e", "(", "t", "y", "p", "e", "=">> \o TypeName(self.type)
    \o <<",", " ", "t", "e", "x", "t", "=">> \o self.text
    \o <<",", " ", "l", "o", "c", "s", "=">> \o FormatLocs(self) \o <<")">>

\* The message of the one diagnostic of _read_clines.
SlashedEnd == "Slashed end"

\* ----------------------------------------------------------------- state

VARIABLES
    src,       \* the content of the file that parse() opens
    fn,        \* CParser.fn
    flines,    \* _read_rlines: the list f.readlines() returned
    ridx,      \* _read_rlines: index of the for loop's next line
    num,       \* _read_rlines: num
    rpc,       \* _read_rlines: "new", "created", "loop", "done"
    heap,      \* the Lexeme objects, by identity 1..Len(heap)
    rline,     \* _read_clines: rline (an identity, or None)
    current,   \* _read_clines: current (an identity, or None)
    cpc,       \* _read_clines: "new", "created", "pull", "got", "yielded",
               \*               "eof", "final", "done", "raised"
    lexem,     \* dump_stream: lexem (an identity, or None)
    dpc,       \* dump_stream: "new", "next", "wait", "have", "done", "raised"
    errors,    \* the lines error() printed, in order
    printed,   \* the lines dump_stream printed, in order
    yielded,   \* history: the identities _read_clines yielded, in order
    spans,     \* history: first and last physical line of each yielded unit
    curFirst,  \* history: first physical line of the pending unit (0: none)
    subject,   \* method harness: the unit whose methods are called
    lastOp,    \* method harness: the last Lexeme method called
    numbers,   \* format_ranges harness: the argument
    result,    \* format_ranges harness: the returned string
    fpc        \* format_ranges harness: "call", "returned"

pvars == <<fn, flines, ridx, num, rpc, rline, current, cpc, lexem, dpc,
           errors, printed, yielded, spans, curFirst>>
frvars == <<numbers, result, fpc>>
lexvars == <<subject, lastOp>>
vars == <<src, heap, pvars, lexvars, frvars>>

\* CParser.error: the line it prints, field by field.
Error(pos, msg, dl, dc) ==
    [fn |-> fn, l |-> pos.l + dl, c |-> pos.c + dc, msg |-> msg]

\* CParser.__init__: fn is None (written as a string, fn being one later).
NoFn == "None"

\* The path test.py hands to parse().
DemoFn == "demo.c"

PipelineIdle ==
    /\ fn = NoFn /\ flines = <<>> /\ ridx = 0 /\ num = 0 /\ rpc = "new"
    /\ rline = None /\ current = None /\ cpc = "new"
    /\ lexem = None /\ dpc = "new"
    /\ errors = <<>> /\ printed = <<>>
    /\ yielded = <<>> /\ spans = <<>> /\ curFirst = 0

HarnessIdle ==
    /\ subject = None
    /\ lastOp = [op |-> "none"]
    /\ numbers = <<>> /\ result = <<>> /\ fpc = "idle"

\* ------------------------------------------------------------- pipeline

\* A CParser was constructed (fn is None); the file holds any content.
Init ==
    /\ src \in SeqsUpTo(Alphabet, MaxSrcLen)
    /\ heap = <<>>
    /\ PipelineIdle
    /\ HarnessIdle

\* parse(): fn is set, the file opened, both generators created (neither has
\* run yet) and dump_stream entered.
Parse ==
    /\ dpc = "new"
    /\ fn' = DemoFn
    /\ rpc' = "created"
    /\ cpc' = "created"
    /\ dpc' = "next"
    /\ UNCHANGED <<src, heap, flines, ridx, num, rline, current, lexem, errors,
                   printed, yielded, spans, curFirst, lexvars, frvars>>

\* Mutant: current is not reset after a yield.
KeepCurrent(cur) == cur

\* Line 134 (and line 119): current = None
ResetCurrent(cur) == None

\* dump_stream's for loop asks the merger for its next element. The merger
\* starts (current = None), resumes after a yield of its loop (current =
\* None, then the next pull), or resumes after its last yield and returns,
\* which ends the for loop.
DumpNext ==
    /\ dpc = "next"
    /\ cpc \in {"created", "yielded", "final"}
    /\ IF cpc = "final"
       THEN /\ cpc' = "done"
            /\ dpc' = "done"
            /\ UNCHANGED current
       ELSE /\ current' = ResetCurrent(current)
            /\ cpc' = "pull"
            /\ dpc' = "wait"
    /\ UNCHANGED <<src, heap, fn, flines, ridx, num, rpc, rline, lexem, errors,
                   printed, yielded, spans, curFirst, lexvars, frvars>>

\* next(rlines), first time: the producer starts, reads every line of the
\* file and enters its for loop.
RlinesStart ==
    /\ cpc = "pull"
    /\ rpc = "created"
    /\ num' = 1
    /\ flines' = ReadLines(src)
    /\ ridx' = 1
    /\ rpc' = "loop"
    /\ UNCHANGED <<src, heap, fn, rline, current, cpc, lexem, dpc, errors,
                   printed, yielded, spans, curFirst, lexvars, frvars>>

\* The producer's loop body up to its yield; the merger receives the unit.
RlinesYield ==
    /\ cpc = "pull"
    /\ rpc = "loop"
    /\ ridx <= Len(flines)
    /\ heap' = Append(heap, make_line(num, StripNL(flines[ridx])))
    /\ num' = num + 1
    /\ ridx' = ridx + 1
    /\ rline' = Len(heap) + 1
    /\ cpc' = "got"
    /\ UNCHANGED <<src, fn, flines, rpc, current, lexem, dpc, errors, printed,
                   yielded, spans, curFirst, lexvars, frvars>>

\* The producer's for loop is over: StopIteration, which the merger catches.
RlinesStop ==
    /\ cpc = "pull"
    /\ rpc = "loop"
    /\ ridx > Len(flines)
    /\ rpc' = "done"
    /\ cpc' = "eof"
    /\ UNCHANGED <<src, heap, fn, flines, ridx, num, rline, current, lexem,
                   dpc, errors, printed, yielded, spans, curFirst, lexvars,
                   frvars>>

\* Mutant: folding leaves the kind of the accumulator as it was.
FoldedKeepType(h, cur, rl) ==
    IF cur = None THEN h
    ELSE [h EXCEPT ![cur] = LexemeAppend(@, h[rl])]

\* Lines 126-130: the pulled unit becomes current, or is folded into it.
Folded(h, cur, rl) ==
    IF cur = None THEN h
    ELSE [h EXCEPT ![cur] = LexemeAppend([@ EXCEPT !.type = "LEX_CLINE"], h[rl])]

FoldTarget(cur, rl) == IF cur = None THEN rl ELSE cur

\* Line 132: the test that decides between yield and truncate.
Continues(lexeme) == Endswith(lexeme, <<BS>>)

\* Mutant: two characters are cut instead of one.
StrippedTwo(lexeme) == Truncate(lexeme, 2)

\* Mutant: the trailing backslash is left in place.
NotStripped(lexeme) == lexeme

\* Line 136: current.truncate()
Stripped(lexeme) == Truncate(lexeme, 1)

\* The merger's loop body after a successful pull, up to its yield or to the
\* next pull.
Fold ==
    /\ cpc = "got"
    /\ LET cur == FoldTarget(current, rline)
           h == Folded(heap, current, rline)
           first == IF current = None THEN num - 1 ELSE curFirst
       IN  /\ current' = cur
           /\ IF ~Continues(h[cur])
              THEN /\ heap' = h
                   /\ yielded' = Append(yielded, cur)
                   /\ spans' = Append(spans, [first |-> first, last |-> num - 1])
                   /\ curFirst' = 0
                   /\ lexem' = cur
                   /\ cpc' = "yielded"
                   /\ dpc' = "have"
              ELSE /\ heap' = [h EXCEPT ![cur] = Stripped(@)]
                   /\ curFirst' = first
                   /\ cpc' = "pull"
                   /\ UNCHANGED <<yielded, spans, lexem, dpc>>
    /\ UNCHANGED <<src, fn, flines, ridx, num, rpc, rline, errors, printed,
                   lexvars, frvars>>

\* Line 138 with nothing pending: the merger returns, the for loop ends.
ClinesReturn ==
    /\ cpc = "eof"
    /\ current = None
    /\ cpc' = "done"
    /\ dpc' = "done"
    /\ UNCHANGED <<src, heap, fn, flines, ridx, num, rpc, rline, current,
                   lexem, errors, printed, yielded, spans, curFirst, lexvars,
                   frvars>>

\* Lines 138-140 with a unit pending: last_pos is evaluated first (an
\* IndexError on an empty unit leaves the generator, dump_stream and parse),
\* then the diagnostic is printed and the unit yielded.
ClinesSlashedEnd ==
    /\ cpc = "eof"
    /\ current # None
    /\ IF LastPosRaises(heap[current])
       THEN /\ cpc' = "raised"
            /\ dpc' = "raised"
            /\ UNCHANGED <<errors, yielded, spans, curFirst, lexem>>
       ELSE /\ errors' = Append(errors, Error(LastPos(heap[current]), SlashedEnd, 0, 1))
            /\ yielded' = Append(yielded, current)
            /\ spans' = Append(spans, [first |-> curFirst, last |-> num - 1])
            /\ curFirst' = 0
            /\ lexem' = current
            /\ cpc' = "final"
            /\ dpc' = "have"
    /\ UNCHANGED <<src, heap, fn, flines, ridx, num, rpc, rline, current,
                   printed, lexvars, frvars>>

\* dump_stream's loop body.
DumpPrint ==
    /\ dpc = "have"
    /\ printed' = Append(printed, Dump(heap[lexem]))
    /\ dpc' = "next"
    /\ UNCHANGED <<src, heap, fn, flines, ridx, num, rpc, rline, current, cpc,
                   lexem, errors, yielded, spans, curFirst, lexvars, frvars>>

Next ==
    \/ Parse
    \/ DumpNext
    \/ RlinesStart
    \/ RlinesYield
    \/ RlinesStop
    \/ Fold
    \/ ClinesReturn
    \/ ClinesSlashedEnd
    \/ DumpPrint

Spec == Init /\ [][Next]_vars

\* ------------------------------------------------ Lexeme method harness

\* Units built by make_line, one per line of a file; on one of them, the
\* subject, append (of any unit, itself included) and truncate (with any
\* count) are then called in any order.
InitLex ==
    /\ src \in SeqsUpTo(Alphabet, MaxLexSrc)
    /\ heap = [k \in 1..Len(ReadLines(src)) |->
                 make_line(k, StripNL(ReadLines(src)[k]))]
    /\ subject \in DOMAIN heap
    /\ lastOp = [op |-> "none"]
    /\ numbers = <<>> /\ result = <<>> /\ fpc = "idle"
    /\ PipelineIdle

CallAppend ==
    /\ \E other \in DOMAIN heap :
         /\ Len(heap[subject].text) + Len(heap[other].text) <= MaxText
         /\ heap' = [heap EXCEPT ![subject] = LexemeAppend(@, heap[other])]
         /\ lastOp' = [op |-> "append", arg |-> other,
                        len |-> Len(heap[subject].text)]
    /\ UNCHANGED <<src, subject, pvars, frvars>>

CallTruncate ==
    /\ \E count \in (0 - 1)..MaxTrunc :
         /\ heap' = [heap EXCEPT ![subject] = Truncate(@, count)]
         /\ lastOp' = [op |-> "truncate", arg |-> count,
                        len |-> Len(heap[subject].text)]
    /\ UNCHANGED <<src, subject, pvars, frvars>>

NextLex ==
    \/ CallAppend
    \/ CallTruncate

SpecLex == InitLex /\ [][NextLex]_vars

\* ------------------------------------------------ format_ranges harness

FRNums == (0 - FRNeg)..FRPos

\* The duplicate-free sequences over S of at most n elements, in any order.
DistinctSeqs(S, n) ==
    {q \in SeqsUpTo(S, n) : \A i, j \in DOMAIN q : i # j => q[i] # q[j]}

InitFR ==
    /\ numbers \in DistinctSeqs(FRNums, MaxCount)
    /\ result = <<>>
    /\ fpc = "call"
    /\ src = <<>>
    /\ heap = <<>>
    /\ PipelineIdle
    /\ subject = None
    /\ lastOp = [op |-> "none"]

CallFormatRanges ==
    /\ fpc = "call"
    /\ result' = format_ranges(numbers)
    /\ fpc' = "returned"
    /\ UNCHANGED <<src, heap, pvars, lexvars, numbers>>

NextFR == CallFormatRanges

SpecFR == InitFR /\ [][NextFR]_vars

\* ------------------------------------------- reference view of the file

\* The physical lines read off the content directly, by counting newlines:
\* character p lies on line 1 + (newlines before p); a newline ends its line.
LineOf(p) == 1 + Cardinality({j \in 1..(p - 1) : src[j] = NL})
NumLines == IF src = <<>> THEN 0 ELSE LineOf(Len(src))
LineStart(k) ==
    CHOOSE p \in 1..Len(src) :
        LineOf(p) = k /\ \A q \in 1..(p - 1) : LineOf(q) # k
\* Line k as stored in the file, its newline included.
RawLine(k) ==
    LET n == Cardinality({p \in 1..Len(src) : LineOf(p) = k})
    IN  [i \in 1..n |-> src[LineStart(k) + i - 1]]
\* Line k without its newline.
PhysLine(k) ==
    LET n == Cardinality({p \in 1..Len(src) : LineOf(p) = k /\ src[p] # NL})
    IN  [i \in 1..n |-> src[LineStart(k) + i - 1]]

EndsBS(text) == text # <<>> /\ text[Len(text)] = BS
Front(text) == SubSeq(text, 1, Len(text) - 1)

\* The positions of columns 1..n of line k.
Cols(k, n) == [i \in 1..n |-> [l |-> k, c |-> i]]

\* Positions in source order: lines never decrease, columns increase in a line.
InOrder(locs) ==
    \A i \in 1..(Len(locs) - 1) :
        \/ locs[i].l < locs[i + 1].l
        \/ locs[i].l = locs[i + 1].l /\ locs[i].c < locs[i + 1].c

Terminated == dpc \in {"done", "raised"}
Unit(j) == heap[yielded[j]]
\* Line k was pulled while nothing was pending.
StartsLogical(k) ==
    \/ curFirst = k
    \/ \E j \in DOMAIN spans : spans[j].first = k

\* ---------------------------------------------------------------- claims

\* Lines a..b, each without its last character, concatenated.
RECURSIVE FrontsOf(_, _)
FrontsOf(a, b) ==
    IF a > b THEN <<>> ELSE Front(PhysLine(a)) \o FrontsOf(a + 1, b)

LastLineSlashed == NumLines >= 1 /\ EndsBS(PhysLine(NumLines))

\* C1 (as claimed): whenever the last physical line ends in a backslash, the
\* run does not abort, prints exactly one diagnostic, "Slashed end", and the
\* last unit yielded is the pending unit with its backslashes stripped.
C1_SlashedEndRecovered ==
    (Terminated /\ LastLineSlashed) =>
        /\ dpc = "done"
        /\ Len(errors) = 1
        /\ errors[1].msg = SlashedEnd
        /\ yielded # <<>>
        /\ spans[Len(spans)].last = NumLines
        /\ Unit(Len(yielded)).text
             = FrontsOf(spans[Len(spans)].first, spans[Len(spans)].last)

\* C2 (as claimed): a line k that ends in a backslash and starts a logical
\* line, followed by line k+1, gives one yielded unit whose text is line k
\* without its backslash followed by line k+1, with len(k)-1+len(k+1)
\* positions in source order. Stated for the runs that end normally.
C2_TwoLineMerge ==
    dpc = "done" =>
        \A k \in 1..(NumLines - 1) :
            (EndsBS(PhysLine(k)) /\ StartsLogical(k)) =>
                \E j \in DOMAIN yielded :
                    /\ spans[j].first = k
                    /\ Unit(j).text = Front(PhysLine(k)) \o PhysLine(k + 1)
                    /\ Len(Unit(j).locs)
                         = Len(PhysLine(k)) - 1 + Len(PhysLine(k + 1))
                    /\ InOrder(Unit(j).locs)

\* C2 (amended): the same, for the pairs whose joined text (line k without
\* its backslash, then line k+1) does not itself end in a backslash; the
\* unit then spans exactly lines k and k+1, is a LEX_CLINE, and its positions
\* are columns 1..len(k)-1 of line k followed by every column of line k+1.
C2_TwoLineMergeWhenComplete ==
    Terminated =>
        \A k \in 1..(NumLines - 1) :
            ( /\ EndsBS(PhysLine(k))
              /\ StartsLogical(k)
              /\ ~EndsBS(Front(PhysLine(k)) \o PhysLine(k + 1)) ) =>
                \E j \in DOMAIN yielded :
                    /\ spans[j] = [first |-> k, last |-> k + 1]
                    /\ Unit(j).type = "LEX_CLINE"
                    /\ Unit(j).text = Front(PhysLine(k)) \o PhysLine(k + 1)
                    /\ Len(Unit(j).locs)
                         = Len(PhysLine(k)) - 1 + Len(PhysLine(k + 1))
                    /\ Unit(j).locs
                         = Cols(k, Len(PhysLine(k)) - 1)
                           \o Cols(k + 1, Len(PhysLine(k + 1)))
                    /\ InOrder(Unit(j).locs)

\* A finished run whose first line "a\" was merged with a second line "b".
C2_Witness ==
    /\ dpc = "done"
    /\ NumLines = 2
    /\ PhysLine(1) = <<"a", BS>>
    /\ PhysLine(2) = <<"b">>
    /\ Len(yielded) = 1
    /\ Unit(1).text = <<"a", "b">>

NoLineSlashed == \A k \in 1..NumLines : ~EndsBS(PhysLine(k))

\* C3: when no physical line ends in a backslash, the k-th unit yielded is
\* the k-th line, and at the end as many units were yielded as the producer
\* made (one per line).
C3_NoContinuationIdentity ==
    NoLineSlashed =>
        /\ \A k \in DOMAIN yielded : Unit(k).text = PhysLine(k)
        /\ Terminated =>
             /\ dpc = "done"
             /\ Len(yielded) = Len(heap)
             /\ Len(yielded) = NumLines

C3_Witness ==
    /\ dpc = "done"
    /\ NoLineSlashed
    /\ Len(yielded) = 3
    /\ Unit(1).text # <<>>
    /\ Unit(3).text # <<>>

\* Position loc names a character of the file (not a newline).
ValidLoc(loc) ==
    /\ loc.l \in 1..NumLines
    /\ loc.c \in 1..Len(PhysLine(loc.l))

\* C4: every unit, built by make_line and then changed by any appends and
\* truncates, has as many positions as characters, and its i-th position is
\* the place in the file of its i-th character.
C4_TextMatchesPositions ==
    \A o \in DOMAIN heap :
        /\ Len(heap[o].text) = Len(heap[o].locs)
        /\ \A i \in DOMAIN heap[o].locs :
               /\ ValidLoc(heap[o].locs[i])
               /\ i \in DOMAIN heap[o].text
               /\ heap[o].text[i] = PhysLine(heap[o].locs[i].l)[heap[o].locs[i].c]

\* A unit that holds characters of two lines after an append, just cut by a
\* truncate that removed something.
C4_Witness ==
    /\ lastOp.op = "truncate"
    /\ lastOp.arg > 0
    /\ \E i, j \in DOMAIN heap[subject].locs :
           heap[subject].locs[i].l # heap[subject].locs[j].l

\* C5: units are yielded in strictly increasing order of their first
\* physical line, the positions of a unit lie on the lines it was folded from,
\* and they are in source order.
C5_YieldOrder ==
    /\ \A j \in 1..(Len(spans) - 1) : spans[j].first < spans[j + 1].first
    /\ \A j \in DOMAIN yielded :
           /\ InOrder(Unit(j).locs)
           /\ \A i \in DOMAIN Unit(j).locs :
                  /\ spans[j].first <= Unit(j).locs[i].l
                  /\ Unit(j).locs[i].l <= spans[j].last

\* Two units yielded, the second folded from two lines with characters of both.
C5_Witness ==
    /\ Len(yielded) = 2
    /\ spans[2].first = 2
    /\ \E i, j \in DOMAIN Unit(2).locs : Unit(2).locs[i].l < Unit(2).locs[j].l

\* C6 (as claimed): when the last physical line does not end in a backslash
\* (no line at all included), no diagnostic is printed and nothing is raised.
C6_OnlyUnterminatedFails ==
    ~LastLineSlashed => (errors = <<>> /\ cpc # "raised")

\* C7 (as claimed): the diagnostic names the last physical line of the file,
\* and the column after the last character left in the pending unit.
C7_DiagnosticPlace ==
    \A e \in DOMAIN errors :
        /\ errors[e].msg = SlashedEnd
        /\ errors[e].l = NumLines
        /\ errors[e].c = LastPos(heap[current]).c + 1

\* C10: the unit the producer hands over for line k is a fresh LEX_RLINE unit
\* whose text is line k as stored in the file less one trailing newline and
\* whose i-th position is (k, i); units come one per line, in line order.
C10_RawLineProducer ==
    /\ Len(heap) <= NumLines
    /\ rpc = "done" => Len(heap) = NumLines
    /\ num = IF rpc \in {"new", "created"} THEN 0 ELSE Len(heap) + 1
    /\ cpc = "got" =>
         LET k == Len(heap)
             raw == RawLine(k)
         IN  /\ rline = k
             /\ heap[k].type = "LEX_RLINE"
             /\ heap[k].text = IF raw[Len(raw)] = NL THEN Front(raw) ELSE raw
             /\ heap[k].text = PhysLine(k)
             /\ heap[k].locs = Cols(k, Len(heap[k].text))

\* The producer has just handed over the unit of a second, non-empty line
\* that is stored with a newline.
C10_Witness ==
    /\ cpc = "got"
    /\ Len(heap) = 2
    /\ Len(heap[2].text) >= 2
    /\ RawLine(2)[Len(RawLine(2))] = NL

\* ------------------------------------- reading a range string back

IsDigit(ch) == \E d \in 1..10 : Digits[d] = ch
DigitVal(ch) == (CHOOSE d \in 1..10 : Digits[d] = ch) - 1

\* The decimal digits of str from index i on: their value, the index after
\* them, and how many there were.
RECURSIVE ReadNat(_, _, _, _)
ReadNat(str, i, acc, n) ==
    IF i <= Len(str) /\ IsDigit(str[i])
    THEN ReadNat(str, i + 1, acc * 10 + DigitVal(str[i]), n + 1)
    ELSE [val |-> acc, next |-> i, ok |-> n > 0]

\* An optional minus sign and digits.
ReadInt(str, i) ==
    IF i <= Len(str) /\ str[i] = "-"
    THEN LET r == ReadNat(str, i + 1, 0, 0)
         IN  [val |-> 0 - r.val, next |-> r.next, ok |-> r.ok]
    ELSE ReadNat(str, i, 0, 0)

\* One item: an integer, or an integer, a dash and an integer.
ReadItem(str, i) ==
    LET a == ReadInt(str, i)
    IN  IF a.next <= Len(str) /\ str[a.next] = "-"
        THEN LET b == ReadInt(str, a.next + 1)
             IN  [start |-> a.val, end |-> b.val, single |-> FALSE,
                  next |-> b.next, ok |-> a.ok /\ b.ok]
        ELSE [start |-> a.val, end |-> a.val, single |-> TRUE,
              next |-> a.next, ok |-> a.ok]

Malformed == <<[malformed |-> TRUE]>>

\* The items of a string of items separated by ", "; Malformed when
\* the string is not of that form.
RECURSIVE ReadRanges(_, _)
ReadRanges(str, i) ==
    LET it == ReadItem(str, i)
        run == [start |-> it.start, end |-> it.end, single |-> it.single]
    IN  IF ~it.ok THEN Malformed
        ELSE IF it.next > Len(str) THEN <<run>>
        ELSE IF /\ it.next + 2 <= Len(str)
                /\ str[it.next] = ","
                /\ str[it.next + 1] = " "
             THEN LET rest == ReadRanges(str, it.next + 2)
                  IN  IF rest = Malformed THEN rest ELSE <<run>> \o rest
             ELSE Malformed

RangesOf(str) == IF str = <<>> THEN <<>> ELSE ReadRanges(str, 1)

\* start..end as a sequence (empty when end < start).
Span(start, end) == [i \in 1..(end - start + 1) |-> start + i - 1]

\* Every item expanded, in the order of the items.
RECURSIVE Expand(_)
Expand(runs) ==
    IF runs = <<>> THEN <<>>
    ELSE Span(runs[1].start, runs[1].end) \o Expand(Tail(runs))

Elems(q) == {q[i] : i \in DOMAIN q}

\* C8: expanding the items of the returned string gives every number of the
\* argument exactly once and nothing else.
C8_RoundTrip ==
    fpc = "returned" =>
        LET runs == RangesOf(result)
        IN  /\ runs # Malformed
            /\ Elems(Expand(runs)) = Elems(numbers)
            /\ Len(Expand(runs)) = Len(numbers)

\* Returned for 10, -1, 3, 9 given in that order: two singles and a range
\* that crosses from one digit to two.
C8_Witness ==
    /\ fpc = "returned"
    /\ numbers = <<10, 0 - 1, 3, 9>>
    /\ Len(RangesOf(result)) = 3

\* The maximal runs of consecutive members of S, ascending.
RunStarts(S) == {n \in S : (n - 1) \notin S}
RunEnd(S, a) == CHOOSE b \in S : b >= a /\ (b + 1) \notin S
                                 /\ \A m \in a..b : m \in S
MaximalRuns(S) ==
    LET starts == CHOOSE q \in [1..Cardinality(RunStarts(S)) -> RunStarts(S)] :
                      \A i, j \in DOMAIN q : i < j => q[i] < q[j]
    IN  [r \in DOMAIN starts |->
            [start |-> starts[r], end |-> RunEnd(S, starts[r]),
             single |-> starts[r] = RunEnd(S, starts[r])]]

\* C9: for numbers in any order, the returned string lists exactly the
\* maximal runs of consecutive numbers, ascending, a one-element run as the
\* value alone and a longer one as start-end, separated by ", "; two
\* neighbouring items are at least 2 apart; for no numbers it is empty.
C9_MaximalRuns ==
    fpc = "returned" =>
        LET runs == RangesOf(result)
        IN  /\ runs # Malformed
            /\ runs = MaximalRuns(Elems(numbers))
            /\ \A r \in 1..(Len(runs) - 1) : runs[r + 1].start >= runs[r].end + 2
            /\ \A r \in DOMAIN runs : runs[r].single <=> runs[r].start = runs[r].end
            /\ numbers = <<>> <=> result = <<>>

\* Returned for the unsorted 4, 1, 0, 2: the run 0-2 and the single 4.
C9_Witness ==
    /\ fpc = "returned"
    /\ numbers = <<4, 1, 0, 2>>
    /\ result = <<"0", "-", "2", ",", " ", "4">>

\* C11: a call of truncate(count) with count > 0 leaves the unit's first
\* length - min(count, length) characters and positions (none when count
\* exceeds the length), a call with count <= 0 leaves it as it was; the type
\* and every other unit are untouched.
C11_TruncateClamps ==
    [][ lastOp'.op = "truncate" =>
          LET before == heap[subject]
              after == heap'[subject]
              n == Len(before.text)
              cut == IF lastOp'.arg <= 0 THEN 0
                     ELSE IF lastOp'.arg <= n THEN lastOp'.arg ELSE n
          IN  /\ Len(after.text) = n - cut
              /\ Len(after.locs) = Len(before.locs) - cut
              /\ \A i \in 1..(n - cut) :
                     /\ after.text[i] = before.text[i]
                     /\ after.locs[i] = before.locs[i]
              /\ after.type = before.type
              /\ lastOp'.arg <= 0 => after = before
              /\ \A o \in DOMAIN heap : o # subject => heap'[o] = heap[o]
              /\ DOMAIN heap' = DOMAIN heap
      ]_vars

\* truncate was just called on a unit of two characters with a count of 3,
\* and left it empty.
C11_Witness ==
    /\ lastOp.op = "truncate"
    /\ lastOp.len = 2
    /\ lastOp.arg = 3
    /\ heap[subject].text = <<>>
    /\ heap[subject].locs = <<>>

\* The reference segmentation of lines k..NumLines, with the text acc of a
\* run already begun (pending): a line that ends in a backslash continues
\* the run without its backslash, any other line ends it.
RECURSIVE RefSegments(_, _, _)
RefSegments(k, acc, pending) ==
    IF k > NumLines THEN (IF pending THEN <<acc>> ELSE <<>>)
    ELSE IF EndsBS(PhysLine(k))
         THEN RefSegments(k + 1, acc \o Front(PhysLine(k)), TRUE)
         ELSE <<acc \o PhysLine(k)>> \o RefSegments(k + 1, <<>>, FALSE)

YieldedTexts == [j \in DOMAIN yielded |-> Unit(j).text]

\* C12 (as claimed): the texts of the units yielded are the reference
\* segmentation of the physical lines, and a unit is completed by a line
\* exactly when that line does not end in a backslash (the last line of the
\* file always ends the last unit). Stated for the runs that end normally.
C12_ReferenceSegmentation ==
    dpc = "done" =>
        /\ YieldedTexts = RefSegments(1, <<>>, FALSE)
        /\ \A k \in 1..NumLines :
               (~EndsBS(PhysLine(k)) \/ k = NumLines)
                   <=> \E j \in DOMAIN spans : spans[j].last = k

\* Every physical line was pulled and lies in the span of a yielded unit,
\* and nothing is pending.
AllLinesYielded ==
    /\ Len(heap) = NumLines
    /\ \A k \in 1..NumLines :
           \E j \in DOMAIN spans : spans[j].first <= k /\ k <= spans[j].last
    /\ curFirst = 0

\* C13 (as claimed): the run goes on until the merger has reached its
\* terminal state, and then every physical line is in a yielded unit and no
\* unit is left pending: where the run stops (the only states without a
\* next step), the merger and the producer are done and nothing is pending.
C13_RunsToCompletion ==
    Terminated =>
        /\ cpc = "done"
        /\ rpc = "done"
        /\ AllLinesYielded

\* The last physical line folded into a yielded unit (0: none yet).
LastYieldedLine == IF spans = <<>> THEN 0 ELSE spans[Len(spans)].last

\* C14: the lines pulled from the producer (one unit each, Len(heap) of
\* them) are the lines of the units yielded so far, one after the other from
\* line 1, except while the consumer waits for its next unit; then the lines
\* beyond them are those of the single pending unit, or the one line just
\* pulled and about to start it. The pending unit is never one already
\* yielded.
C14_DemandDriven ==
    /\ \A j \in DOMAIN spans :
           /\ spans[j].first = (IF j = 1 THEN 1 ELSE spans[j - 1].last + 1)
           /\ spans[j].first <= spans[j].last
    /\ LastYieldedLine <= Len(heap)
    /\ dpc \notin {"wait", "raised"} => Len(heap) = LastYieldedLine
    /\ cpc \in {"yielded", "final", "done"} => Len(heap) = LastYieldedLine
    /\ Len(heap) > LastYieldedLine =>
           \/ curFirst = LastYieldedLine + 1
           \/ /\ curFirst = 0
              /\ cpc = "got"
              /\ Len(heap) = LastYieldedLine + 1
    /\ (cpc \in {"pull", "got", "eof"} /\ current # None) =>
           /\ \A j \in DOMAIN yielded : yielded[j] # current
           /\ curFirst = LastYieldedLine + 1

\* The second unit, folded from lines 2 and 3, has just been yielded; three
\* lines were pulled and a fourth is still in the file.
C14_Witness ==
    /\ cpc = "yielded"
    /\ Len(yielded) = 2
    /\ spans[2] = [first |-> 2, last |-> 3]
    /\ Len(heap) = 3
    /\ NumLines = 4

\* The places of the characters of the file's lines (newlines have none).
SourceLocs ==
    {[l |-> k, c |-> i] : k \in 1..NumLines, i \in 1..MaxSrcLen + 1}
        \cap {loc \in [l : 1..NumLines, c : 1..MaxSrcLen + 1] : ValidLoc(loc)}

\* The places held by the units yielded so far.
YieldedLocs ==
    UNION {{Unit(j).locs[i] : i \in DOMAIN Unit(j).locs} : j \in DOMAIN yielded}

\* C15: no place of the file occurs twice in the units yielded (neither in
\* one unit nor in two), every place in a unit carries the character the file
\* has there, and when the run has stopped every place that is in no yielded
\* unit holds a backslash and lies in a run of such places at the end of its
\* line (the backslashes that truncate removed).
C15_NothingLostOrDuplicated ==
    /\ \A j1, j2 \in DOMAIN yielded :
           \A i1 \in DOMAIN Unit(j1).locs, i2 \in DOMAIN Unit(j2).locs :
               Unit(j1).locs[i1] = Unit(j2).locs[i2] => (j1 = j2 /\ i1 = i2)
    /\ \A j1, j2 \in DOMAIN yielded : j1 # j2 => yielded[j1] # yielded[j2]
    /\ \A j \in DOMAIN yielded :
           /\ Len(Unit(j).text) = Len(Unit(j).locs)
           /\ \A i \in DOMAIN Unit(j).locs :
                  /\ Unit(j).locs[i] \in SourceLocs
                  /\ Unit(j).text[i] = PhysLine(Unit(j).locs[i].l)[Unit(j).locs[i].c]
    /\ Terminated =>
           \A loc \in SourceLocs \ YieldedLocs :
               /\ PhysLine(loc.l)[loc.c] = BS
               /\ \A c \in loc.c..Len(PhysLine(loc.l)) :
                      /\ PhysLine(loc.l)[c] = BS
                      /\ [l |-> loc.l, c |-> c] \notin YieldedLocs

\* A finished run of two units in which a character other than a backslash
\* came through and one backslash did not.
C15_Witness ==
    /\ dpc = "done"
    /\ Len(yielded) = 2
    /\ Cardinality(SourceLocs \ YieldedLocs) = 1
    /\ \E loc \in YieldedLocs : PhysLine(loc.l)[loc.c] = "a"

\* C16: a yielded unit is a LEX_CLINE exactly when it was folded from two or
\* more physical lines and a LEX_RLINE exactly when it is one physical line
\* (the last line with its backslash stripped at the end of the file
\* included); none is LEX_UNKNOWN, and the dump printed for it names that kind.
C16_KindMatchesFolding ==
    /\ Len(spans) = Len(yielded)
    /\ \A j \in DOMAIN yielded :
           /\ 1 <= spans[j].first /\ spans[j].first <= spans[j].last
           /\ spans[j].last <= NumLines
           /\ Unit(j).type = "LEX_CLINE" <=> spans[j].last - spans[j].first + 1 >= 2
           /\ Unit(j).type = "LEX_RLINE" <=> spans[j].last = spans[j].first
           /\ Unit(j).type # "LEX_UNKNOWN"
           /\ \A i \in DOMAIN Unit(j).locs :
                  Unit(j).locs[i].l \in spans[j].first..spans[j].last
    /\ \A j \in DOMAIN printed :
           SubSeq(printed[j], 1, 21) =
               <<"L","e","x","e","m","e","(","t","y","p","e","=">>
                   \o TypeName(Unit(j).type)

\* A run that yields a unit folded from two lines and then, at the end of
\* the file, a single line whose backslash was stripped.
C16_Witness ==
    /\ dpc = "done"
    /\ Len(yielded) = 2
    /\ spans[1] = [first |-> 1, last |-> 2] /\ Unit(1).type = "LEX_CLINE"
    /\ spans[2] = [first |-> 3, last |-> 3] /\ Unit(2).type = "LEX_RLINE"
    /\ errors # <<>>
    /\ Unit(2).text = <<"a">>

\* What holds of every state in which a diagnostic has been emitted.
DiagnosticState ==
    /\ Len(errors) <= 1
    /\ errors # <<>> =>
           /\ rpc = "done"
           /\ ridx = Len(flines) + 1
           /\ cpc \in {"final", "done"}
           /\ yielded # <<>>
           /\ yielded[Len(yielded)] = current
           /\ LastYieldedLine = NumLines
           /\ Len(printed) >= Len(yielded) - 1

\* What holds of every step that emits a diagnostic, and of every step
\* taken after one.
DiagnosticStep ==
    /\ errors' # errors =>
           /\ errors = <<>>
           /\ Len(errors') = 1
           /\ rpc = "done"
           /\ current # None
           /\ \A j \in DOMAIN yielded : yielded[j] # current
           /\ curFirst = LastYieldedLine + 1
           /\ Len(printed) = Len(yielded)
           /\ yielded' = Append(yielded, current)
           /\ spans' = Append(spans, [first |-> curFirst, last |-> NumLines])
           /\ printed' = printed
    /\ errors # <<>> =>
           /\ errors' = errors
           /\ yielded' = yielded
           /\ spans' = spans
           /\ heap' = heap

\* C17: a run emits at most one diagnostic; it is emitted when the raw-line
\* source is exhausted, every earlier logical line has been yielded (and
\* printed) and the pending unit has not yet been yielded; that unit is
\* yielded by the same resumption of the merger, after the diagnostic, and
\* nothing is yielded afterwards.
C17_OneDiagnosticAtEnd == []DiagnosticState /\ [][DiagnosticStep]_vars

\* The diagnostic has been emitted after two logical lines were yielded, and
\* the final unit is not yet printed.
C17_Witness ==
    /\ Len(errors) = 1
    /\ cpc = "final"
    /\ Len(yielded) = 3
    /\ Len(printed) = 2
    /\ dpc = "have"

\* The units yielded so far, by identity.
YieldedSet == {yielded[j] : j \in DOMAIN yielded}

\* While the merger is between yields, its accumulator is no yielded unit.
AccumulatorFresh ==
    (cpc \in {"new", "created", "pull", "got", "eof"} /\ current # None)
        => current \notin YieldedSet

\* A step leaves every already-yielded unit as it was; a step that resumes
\* the merger after a yield empties the accumulator; a step that folds a raw
\* line into the accumulator reads the raw line without changing it and
\* touches no unit but the accumulator.
YieldedFrozen ==
    /\ \A o \in YieldedSet :
           /\ o \in DOMAIN heap'
           /\ heap'[o].text = heap[o].text
           /\ heap'[o].locs = heap[o].locs
           /\ heap'[o].type = heap[o].type
    /\ \A j \in DOMAIN yielded : j \in DOMAIN yielded' /\ yielded'[j] = yielded[j]
    /\ (cpc = "yielded" /\ cpc' # cpc) => current' = None
    /\ (cpc = "got" /\ current # None) =>
           /\ rline # current
           /\ rline \notin YieldedSet
           /\ heap'[rline] = heap[rline]
           /\ \A o \in DOMAIN heap : o # current => heap'[o] = heap[o]
           /\ \E cut \in 0..1 :
                  /\ Len(heap'[current].text) + cut =
                         Len(heap[current].text) + Len(heap[rline].text)
                  /\ \A i \in 1..Len(heap'[current].text) :
                         /\ heap'[current].text[i] = (heap[current].text \o heap[rline].text)[i]
                         /\ heap'[current].locs[i] = (heap[current].locs \o heap[rline].locs)[i]

\* C18: once a unit is yielded no later step changes its text, positions or
\* kind: the accumulator is emptied after each yield, and a fold appends the
\* raw line's characters and positions to the accumulator only.
C18_YieldedUnitsFrozen == []AccumulatorFresh /\ [][YieldedFrozen]_vars

\* A first unit was yielded and a later unit was folded from two lines.
C18_Witness ==
    /\ Len(yielded) = 2
    /\ Unit(1).text = <<"a">>
    /\ spans[2] = [first |-> 2, last |-> 3]
    /\ Unit(2).text = <<"b">>
    /\ Unit(2).type = "LEX_CLINE"

\* The number of positions of unit u on line L.
OnLine(u, L) == Cardinality({i \in DOMAIN u.locs : u.locs[i].l = L})

\* "L:1" or "L:1-m".
LineGroupStr(L, m) ==
    NatStr(L) \o <<":", "1">> \o (IF m = 1 THEN <<>> ELSE <<"-">> \o NatStr(m))

\* The rendering C19 describes: the contributing lines from line L on, in
\* increasing order, each once, joined by ";".
RECURSIVE GroupsStr(_, _, _)
GroupsStr(u, L, first) ==
    IF L > MaxSrcLen + 1 THEN <<>>
    ELSE IF OnLine(u, L) = 0 THEN GroupsStr(u, L + 1, first)
    ELSE (IF first THEN <<>> ELSE <<";">>)
             \o LineGroupStr(L, OnLine(u, L)) \o GroupsStr(u, L + 1, FALSE)

\* C19: in every yielded unit the line numbers of the positions never
\* decrease (each line is one consecutive group) and the columns of a line
\* are 1..m in order; the dump printed for the unit shows each contributing
\* line once, as "L:1" or "L:1-m", in increasing line order joined by ";".
C19_DumpGroups ==
    /\ \A j \in DOMAIN yielded :
           LET locs == Unit(j).locs
           IN  /\ \A i1, i2 \in DOMAIN locs : i1 < i2 => locs[i1].l <= locs[i2].l
               /\ \A i \in DOMAIN locs :
                      locs[i].c = 1 + Cardinality({k \in 1..(i - 1) : locs[k].l = locs[i].l})
               /\ \A i \in DOMAIN locs : locs[i].l >= 1
    /\ Len(printed) <= Len(yielded)
    /\ \A j \in DOMAIN printed :
           printed[j] =
               <<"L", "e", "x", "e", "m", "e", "(", "t", "y", "p", "e", "=">>
                   \o TypeName(Unit(j).type)
                   \o <<",", " ", "t", "e", "x", "t", "=">> \o Unit(j).text
                   \o <<",", " ", "l", "o", "c", "s", "=">>
                   \o GroupsStr(Unit(j), 1, TRUE) \o <<")">>

\* A dump was printed for a unit with two characters of line 1 and one of
\* line 2: "1:1-2;2:1".
C19_Witness ==
    /\ Len(printed) = 1
    /\ OnLine(Unit(1), 1) = 2
    /\ OnLine(Unit(1), 2) = 1
    /\ GroupsStr(Unit(1), 1, TRUE) = <<"1", ":", "1", "-", "2", ";", "2", ":", "1">>
    /\ SubSeq(printed[1], Len(printed[1]) - 9, Len(printed[1]) - 1) =
           <<"1", ":", "1", "-", "2", ";", "2", ":", "1">>

====
